---- MODULE Spec2Model ----
(***************************************************************************)
(* Shopify -> ERP (Dynamics AX) middleware, src/main.go.                   *)
(*                                                                         *)
(* The model follows one webhook request per element of Requests through  *)
(* Server.handleWebhook and Server.sendToERP.  Requests are served by      *)
(* net/http in their own goroutines, so the steps of different requests    *)
(* interleave freely.  A handler is cut into actions at its blocking       *)
(* points only: the network round trip (httpClient.Do) and the backoff     *)
(* sleep (time.Sleep); the code between two blocking points is one step.   *)
(*                                                                         *)
(* effects[r] is everything request r's handler has done that is visible   *)
(* outside it, in program order: the audit entries handed to the Logger    *)
(* (Type "incoming_webhook", "outgoing_soap", "soap_response"), the        *)
(* network calls and what they came back with (Type "http_do",             *)
(* "http_return") and the sleeps (Type "sleep").                           *)
(*                                                                         *)
(* Text that the code formats or escapes (ids, envelope fields) is a       *)
(* sequence of one-character strings; opaque text is a TLA+ string.        *)
(* LogEntry.Timestamp is not modelled.                                     *)
(*                                                                         *)
(* The pure functions of the delivery path (xmlEscape, transformOrder,     *)
(* createSOAPEnvelope) are also exercised on their own, over a wider set   *)
(* of inputs than the requests carry, by the specification UnitSpec.       *)
(***************************************************************************)
EXTENDS Integers, Sequences, FiniteSets, TLC

VARIABLES env, pc, request, requestID, orderID, erpOrder, soapXML,
          attempt, result, response, effects,
          upc, text, escaped, shopify, erp, xml

serverVars == <<env, pc, request, requestID, orderID, erpOrder, soapXML,
                attempt, result, response, effects>>

unitVars == <<upc, text, escaped, shopify, erp, xml>>

vars == <<serverVars, unitVars>>

(***************************************************************************)
(* Program constants (src/main.go:18-24).  RetryDelay is in seconds.       *)
(***************************************************************************)
MaxRetries == 3

RetryDelay == 2

DefaultERPEndpoint == "https://httpbin.org/post"

SOAPAction == "http://tempuri.org/CreateOrder"

(***************************************************************************)
(* The environment of the model: the requests in flight, the ids           *)
(* generateRequestID can draw, the inbound orders, the values of the       *)
(* ERP_ENDPOINT and SOAP_ACTION variables, and what one network round trip *)
(* can come back with.                                                     *)
(***************************************************************************)
Requests == {"w1", "w2"}

RequestIDs == {"3f9a1c07d2e4b865", "a04b77e19c3d5f12"}

\* The process environment: nothing set; everything an operator might set
\* (MAX_RETRIES and RETRY_DELAY, in seconds, stand for a retry count and a
\* backoff base handed to the process, 0 when unset: the code reads neither);
\* and an ERP_ENDPOINT net/url cannot parse (a non-numeric port), for which
\* http.NewRequest returns an error.
NothingSet ==
    [ERP_ENDPOINT |-> "", SOAP_ACTION |-> "", MAX_RETRIES |-> 0, RETRY_DELAY |-> 0]

EnvValues ==
    { NothingSet,
      [ERP_ENDPOINT |-> "https://ax.example.com/OrderService.svc",
       SOAP_ACTION |-> "http://ax.example.com/IOrderService/Create",
       MAX_RETRIES |-> 5, RETRY_DELAY |-> 1],
      [ERP_ENDPOINT |-> "http://ax.example.com:port/OrderService.svc",
       SOAP_ACTION |-> "", MAX_RETRIES |-> 0, RETRY_DELAY |-> 0] }

UnparseableURLs == {"http://ax.example.com:port/OrderService.svc"}

\* httpClient.Do returned an error and no response.
TransportErrors == {"dial tcp: connection refused"}

\* httpClient.Do returned a response: its status and the body io.ReadAll
\* handed back (the read error is dropped by the code, line 461).
Responses ==
    { [err |-> "", status |-> 200, header |-> "Content-Type: text/xml",
       body |-> "<CreateOrderResult/>"],
      [err |-> "", status |-> 299, header |-> "Content-Length: 0", body |-> ""],
      [err |-> "", status |-> 300, header |-> "Content-Length: 0", body |-> ""],
      [err |-> "", status |-> 500, header |-> "Content-Type: text/xml",
       body |-> "<soap:Fault/>"] }

Outcomes ==
    { [err |-> e, status |-> 0, header |-> "", body |-> ""] : e \in TransportErrors }
        \cup Responses

\* Address (lines 207-220): the fields transformOrder reads.  A field the
\* JSON body does not carry is its type's zero value.
ZeroAddress ==
    [ FirstName |-> <<>>, LastName |-> <<>>, Company |-> <<>>,
      Address1 |-> <<>>, Address2 |-> <<>>, City |-> <<>>, Province |-> <<>>,
      Zip |-> <<>>, Country |-> <<>>, Phone |-> <<>> ]

\* ShopifyOrder (lines 169-185) decoded from a body that carries none of
\* its fields.
ZeroOrder ==
    [ ID |-> 0, OrderNumber |-> 0, Email |-> <<>>, CreatedAt |-> <<>>,
      TotalPrice |-> <<>>, SubtotalPrice |-> <<>>, TotalTax |-> <<>>,
      Currency |-> <<>>, FinancialStatus |-> <<>>, FulfillmentStatus |-> <<>>,
      Customer |-> [FirstName |-> <<>>, LastName |-> <<>>, Phone |-> <<>>],
      LineItems |-> <<>>,
      ShippingAddress |-> ZeroAddress, BillingAddress |-> ZeroAddress ]

\* LineItem (lines 195-205): the fields transformOrder reads.
ItemA ==
    [ SKU |-> <<"A", "1">>, Title |-> <<"T", "&", "C">>, Quantity |-> 2,
      Price |-> <<"9">>, VariantTitle |-> <<"L">> ]

ItemB ==
    [ SKU |-> <<"B", "2">>, Title |-> <<"<", "b", ">">>, Quantity |-> 1,
      Price |-> <<"5">>, VariantTitle |-> <<>> ]

\* An order that carries every field.
FullOrder ==
    [ ID |-> 12345, OrderNumber |-> 1001, Email |-> <<"a", "@", "b">>,
      CreatedAt |-> <<"d", "1">>, TotalPrice |-> <<"2", "3">>,
      SubtotalPrice |-> <<"2", "0">>, TotalTax |-> <<"3">>,
      Currency |-> <<"E", "G", "P">>, FinancialStatus |-> <<"p", "a", "i", "d">>,
      FulfillmentStatus |-> <<"n", "o">>,
      Customer |-> [FirstName |-> <<"A", "l">>, LastName |-> <<"O", "'", "N">>,
                    Phone |-> <<"0", "1">>],
      LineItems |-> <<ItemA>>,
      ShippingAddress |->
        [ FirstName |-> <<"S">>, LastName |-> <<"H">>, Company |-> <<"C", "o">>,
          Address1 |-> <<"1">>, Address2 |-> <<"2">>, City |-> <<"G">>,
          Province |-> <<"P">>, Zip |-> <<"Z">>, Country |-> <<"E">>,
          Phone |-> <<"7">> ],
      BillingAddress |->
        [ FirstName |-> <<"B">>, LastName |-> <<"I">>, Company |-> <<"\"", "Q", "\"">>,
          Address1 |-> <<"3">>, Address2 |-> <<"4">>, City |-> <<"K">>,
          Province |-> <<"R">>, Zip |-> <<"Y">>, Country |-> <<"F">>,
          Phone |-> <<"8">> ] ]

Orders == { ZeroOrder, FullOrder }

\* time.Now().UTC().Format(time.RFC3339) at the time of the transformation.
Clock == { <<"T", "1", "Z">> }

\* What arrives at /webhook: the method and what io.ReadAll and
\* json.Unmarshal make of the body.
Bodies ==
    { [readErr |-> TRUE,  parseErr |-> FALSE, order |-> ZeroOrder],
      [readErr |-> FALSE, parseErr |-> TRUE,  order |-> ZeroOrder] }
        \cup { [readErr |-> FALSE, parseErr |-> FALSE, order |-> o] : o \in Orders }

InboundRequests ==
    { [method |-> m, topic |-> "orders/create", body |-> b] :
        m \in {"POST", "GET"}, b \in Bodies }

NoRequest == [method |-> "", topic |-> "", body |->
                [readErr |-> FALSE, parseErr |-> FALSE, order |-> ZeroOrder]]

(***************************************************************************)
(* Pure helpers.                                                           *)
(***************************************************************************)
Range(s) == { s[i] : i \in DOMAIN s }

DigitChar(d) == <<"0", "1", "2", "3", "4", "5", "6", "7", "8", "9">>[d + 1]

RECURSIVE FormatNat(_)
FormatNat(n) ==
    IF n < 10 THEN <<DigitChar(n)>>
    ELSE Append(FormatNat(n \div 10), DigitChar(n % 10))

\* fmt.Sprintf("%d", n)
FormatInt(n) == IF n < 0 THEN <<"-">> \o FormatNat(0 - n) ELSE FormatNat(n)

\* Variant: the ampersand is written as it is.
EscapeChar_RawAmpersand(c) ==
    CASE c = "'"  -> <<"&", "#", "3", "9", ";">>
      [] c = "<"  -> <<"&", "l", "t", ";">>
      [] c = ">"  -> <<"&", "g", "t", ";">>
      [] c = "\"" -> <<"&", "#", "3", "4", ";">>
      [] OTHER    -> <<c>>

\* html.EscapeString on one character.
EscapeChar(c) ==
    CASE c = "&"  -> <<"&", "a", "m", "p", ";">>
      [] c = "'"  -> <<"&", "#", "3", "9", ";">>
      [] c = "<"  -> <<"&", "l", "t", ";">>
      [] c = ">"  -> <<"&", "g", "t", ";">>
      [] c = "\"" -> <<"&", "#", "3", "4", ";">>
      [] OTHER    -> <<c>>

RECURSIVE xmlEscape(_)
xmlEscape(s) ==
    IF s = <<>> THEN <<>> ELSE EscapeChar(Head(s)) \o xmlEscape(Tail(s))

\* fmt.Sprintf("%s %s", first, last)
SprintfName(first, last) == first \o <<" ">> \o last

\* One ERPItem of the loop of lines 357-366.
TransformItem(item) ==
    [ SKU |-> item.SKU, ProductName |-> item.Title, Quantity |-> item.Quantity,
      UnitPrice |-> item.Price, VariantTitle |-> item.VariantTitle ]

\* Variant: the items are filled from the last to the first.
TransformItems_Reversed(lineItems) ==
    [ i \in 1..Len(lineItems) |-> TransformItem(lineItems[Len(lineItems) + 1 - i]) ]

\* items := make([]ERPItem, len(LineItems)); items[i] = ... (lines 356-366)
TransformItems(lineItems) ==
    [ i \in 1..Len(lineItems) |-> TransformItem(lineItems[i]) ]

\* Variant: a name whose parts are both empty is left empty.
TransformAddress_TrimmedName(addr) ==
    [ Name         |-> IF addr.FirstName = <<>> /\ addr.LastName = <<>>
                       THEN <<>> ELSE SprintfName(addr.FirstName, addr.LastName),
      Company      |-> addr.Company,
      AddressLine1 |-> addr.Address1,
      AddressLine2 |-> addr.Address2,
      City         |-> addr.City,
      State        |-> addr.Province,
      PostalCode   |-> addr.Zip,
      Country      |-> addr.Country,
      Phone        |-> addr.Phone ]

\* ERPAddress of lines 369-391.
TransformAddress(addr) ==
    [ Name         |-> SprintfName(addr.FirstName, addr.LastName),
      Company      |-> addr.Company,
      AddressLine1 |-> addr.Address1,
      AddressLine2 |-> addr.Address2,
      City         |-> addr.City,
      State        |-> addr.Province,
      PostalCode   |-> addr.Zip,
      Country      |-> addr.Country,
      Phone        |-> addr.Phone ]

\* Variant: the order number taken for the order id.
transformOrder_NumberAsID(shopifyOrder, now) ==
    [ OrderID           |-> FormatInt(shopifyOrder.OrderNumber),
      OrderNumber       |-> FormatInt(shopifyOrder.OrderNumber),
      CustomerEmail     |-> shopifyOrder.Email,
      CustomerName      |-> SprintfName(shopifyOrder.Customer.FirstName,
                                        shopifyOrder.Customer.LastName),
      CustomerPhone     |-> shopifyOrder.Customer.Phone,
      OrderDate         |-> shopifyOrder.CreatedAt,
      TotalAmount       |-> shopifyOrder.TotalPrice,
      SubtotalAmount    |-> shopifyOrder.SubtotalPrice,
      TaxAmount         |-> shopifyOrder.TotalTax,
      Currency          |-> shopifyOrder.Currency,
      PaymentStatus     |-> shopifyOrder.FinancialStatus,
      FulfillmentStatus |-> shopifyOrder.FulfillmentStatus,
      Items             |-> TransformItems(shopifyOrder.LineItems),
      ShippingAddress   |-> TransformAddress(shopifyOrder.ShippingAddress),
      BillingAddress    |-> TransformAddress(shopifyOrder.BillingAddress),
      Timestamp         |-> now ]

\* transformOrder (lines 355-411); now is what time.Now returned.
transformOrder(shopifyOrder, now) ==
    [ OrderID           |-> FormatInt(shopifyOrder.ID),
      OrderNumber       |-> FormatInt(shopifyOrder.OrderNumber),
      CustomerEmail     |-> shopifyOrder.Email,
      CustomerName      |-> SprintfName(shopifyOrder.Customer.FirstName,
                                        shopifyOrder.Customer.LastName),
      CustomerPhone     |-> shopifyOrder.Customer.Phone,
      OrderDate         |-> shopifyOrder.CreatedAt,
      TotalAmount       |-> shopifyOrder.TotalPrice,
      SubtotalAmount    |-> shopifyOrder.SubtotalPrice,
      TaxAmount         |-> shopifyOrder.TotalTax,
      Currency          |-> shopifyOrder.Currency,
      PaymentStatus     |-> shopifyOrder.FinancialStatus,
      FulfillmentStatus |-> shopifyOrder.FulfillmentStatus,
      Items             |-> TransformItems(shopifyOrder.LineItems),
      ShippingAddress   |-> TransformAddress(shopifyOrder.ShippingAddress),
      BillingAddress    |-> TransformAddress(shopifyOrder.BillingAddress),
      Timestamp         |-> now ]

\* erpOrder before transformOrder has run.
NoOrder == [OrderID |-> <<>>, OrderNumber |-> <<>>]

\* The envelope is the sequence of its tags in document order: the start
\* and end tags of the elements that hold elements, and one entry for each
\* element that holds text, with the text as written between its tags.
Open(tag) == <<"open", tag, <<>>>>

Close(tag) == <<"close", tag, <<>>>>

Leaf(tag, chars) == <<"leaf", tag, chars>>

\* A tem:ShippingAddress or tem:BillingAddress element (lines 305-328).
AddressBlock(tag, addr) ==
    << Open(tag),
       Leaf("tem:Name", xmlEscape(addr.Name)),
       Leaf("tem:Company", xmlEscape(addr.Company)),
       Leaf("tem:AddressLine1", xmlEscape(addr.AddressLine1)),
       Leaf("tem:AddressLine2", xmlEscape(addr.AddressLine2)),
       Leaf("tem:City", xmlEscape(addr.City)),
       Leaf("tem:State", xmlEscape(addr.State)),
       Leaf("tem:PostalCode", xmlEscape(addr.PostalCode)),
       Leaf("tem:Country", xmlEscape(addr.Country)),
       Leaf("tem:Phone", xmlEscape(addr.Phone)),
       Close(tag) >>

\* One tem:Item element (lines 332-340); Quantity is written by %d.
ItemBlock(item) ==
    << Open("tem:Item"),
       Leaf("tem:SKU", xmlEscape(item.SKU)),
       Leaf("tem:ProductName", xmlEscape(item.ProductName)),
       Leaf("tem:Quantity", FormatInt(item.Quantity)),
       Leaf("tem:UnitPrice", xmlEscape(item.UnitPrice)),
       Leaf("tem:VariantTitle", xmlEscape(item.VariantTitle)),
       Close("tem:Item") >>

\* for _, item := range erpOrder.Items (lines 331-341)
RECURSIVE ItemBlocks(_)
ItemBlocks(items) ==
    IF items = <<>> THEN <<>> ELSE ItemBlock(Head(items)) \o ItemBlocks(Tail(items))

\* createSOAPEnvelope (lines 285-352).
createSOAPEnvelope(order) ==
    << Open("soap:Envelope"), Leaf("soap:Header", <<>>), Open("soap:Body"),
       Open("tem:CreateOrder"), Open("tem:order"),
       Leaf("tem:OrderID", xmlEscape(order.OrderID)),
       Leaf("tem:OrderNumber", xmlEscape(order.OrderNumber)),
       Leaf("tem:CustomerEmail", xmlEscape(order.CustomerEmail)),
       Leaf("tem:CustomerName", xmlEscape(order.CustomerName)),
       Leaf("tem:CustomerPhone", xmlEscape(order.CustomerPhone)),
       Leaf("tem:OrderDate", xmlEscape(order.OrderDate)),
       Leaf("tem:TotalAmount", xmlEscape(order.TotalAmount)),
       Leaf("tem:SubtotalAmount", xmlEscape(order.SubtotalAmount)),
       Leaf("tem:TaxAmount", xmlEscape(order.TaxAmount)),
       Leaf("tem:Currency", xmlEscape(order.Currency)),
       Leaf("tem:PaymentStatus", xmlEscape(order.PaymentStatus)),
       Leaf("tem:FulfillmentStatus", xmlEscape(order.FulfillmentStatus)) >>
    \o AddressBlock("tem:ShippingAddress", order.ShippingAddress)
    \o AddressBlock("tem:BillingAddress", order.BillingAddress)
    \o << Open("tem:Items") >>
    \o ItemBlocks(order.Items)
    \o << Close("tem:Items"),
          Leaf("tem:Timestamp", xmlEscape(order.Timestamp)),
          Close("tem:order"), Close("tem:CreateOrder"),
          Close("soap:Body"), Close("soap:Envelope") >>

\* Variant: ERP_ENDPOINT is not read.
ErpEndpoint_AlwaysDefault == DefaultERPEndpoint

\* os.Getenv with the fallback to the default (lines 416-425).
ErpEndpoint == IF env.ERP_ENDPOINT = "" THEN DefaultERPEndpoint ELSE env.ERP_ENDPOINT

SoapActionUsed == IF env.SOAP_ACTION = "" THEN SOAPAction ELSE env.SOAP_ACTION

\* http.NewRequest("POST", erpEndpoint, ...) succeeds iff the URL parses.
NewRequestOK(url) == url \notin UnparseableURLs

\* req.Header after the three Header.Set calls (lines 437-439).
RequestHeaders(action) ==
    [ ContentType |-> "text/xml; charset=utf-8",
      SOAPAction  |-> <<"\"", action, "\"">>,
      UserAgent   |-> "Shopify-ERP-Middleware/1.0" ]

(***************************************************************************)
(* error values.  fmt.Errorf(format, ints..., wrapped): the format, the    *)
(* integers formatted by %d and the error wrapped by %w ("" when none).    *)
(***************************************************************************)
NoResult == [returned |-> FALSE, format |-> "", ints |-> <<>>, wrapped |-> ""]

Nil == [returned |-> TRUE, format |-> "", ints |-> <<>>, wrapped |-> ""]

ErrCreateRequest ==
    [returned |-> TRUE, format |-> "failed to create request: %w",
     ints |-> <<>>, wrapped |-> "parse url: invalid port"]

ErrSendRequest(err) ==
    [returned |-> TRUE, format |-> "failed to send request after %d attempts: %w",
     ints |-> <<MaxRetries>>, wrapped |-> err]

ErrExhausted ==
    [returned |-> TRUE, format |-> "failed to send order to ERP after %d attempts",
     ints |-> <<MaxRetries>>, wrapped |-> ""]

IsFailure(e) == e.returned /\ e.format # ""

(***************************************************************************)
(* Logger: the LogEntry each call hands to writeLogEntry.                  *)
(***************************************************************************)
LogIncomingWebhook(id, headers, body, order) ==
    [ Type |-> "incoming_webhook", RequestID |-> id, Method |-> "POST",
      URL |-> "/webhook", Headers |-> headers, Body |-> body,
      StatusCode |-> 0, Error |-> "", OrderID |-> order ]

LogOutgoingSOAP(id, url, headers, soapBody, order) ==
    [ Type |-> "outgoing_soap", RequestID |-> id, Method |-> "POST",
      URL |-> url, Headers |-> headers, Body |-> soapBody,
      StatusCode |-> 0, Error |-> "", OrderID |-> order ]

\* Variant: the error is not copied into the entry.
LogSOAPResponse_NoError(id, statusCode, headers, responseBody, order, err) ==
    [ Type |-> "soap_response", RequestID |-> id, Method |-> "",
      URL |-> "", Headers |-> headers, Body |-> responseBody,
      StatusCode |-> statusCode, Error |-> "", OrderID |-> order ]

LogSOAPResponse(id, statusCode, headers, responseBody, order, err) ==
    [ Type |-> "soap_response", RequestID |-> id, Method |-> "",
      URL |-> "", Headers |-> headers, Body |-> responseBody,
      StatusCode |-> statusCode, Error |-> err, OrderID |-> order ]

\* s.httpClient.Do(req): the call leaving the process.
HttpDo(url, headers, body) ==
    [ Type |-> "http_do", URL |-> url, Headers |-> headers, Body |-> body ]

\* s.httpClient.Do(req) is back: what the round trip ended with.
HttpReturn(out) ==
    [ Type |-> "http_return", Err |-> out.err, StatusCode |-> out.status,
      Header |-> out.header, Body |-> out.body ]

\* time.Sleep(d)
Sleep(d) == [ Type |-> "sleep", Duration |-> d ]

(***************************************************************************)
(* sendToERP's decisions.                                                  *)
(***************************************************************************)
\* Variant: the lower bound excluded.
IsSuccess_Above200(statusCode) == statusCode > 200 /\ statusCode < 300

\* Variant: redirects taken for success.
IsSuccess_Below400(statusCode) == statusCode >= 200 /\ statusCode < 400

\* resp.StatusCode >= 200 && resp.StatusCode < 300 (line 467)
IsSuccess(statusCode) == statusCode >= 200 /\ statusCode < 300

\* Variant: a retry is due after the last attempt too.
HasRetry_Inclusive(a) == a <= MaxRetries

\* Variant: the budget cut one short.
HasRetry_OffByOne(a) == a < MaxRetries - 1

\* attempt < MaxRetries (lines 451, 475)
HasRetry(a) == a < MaxRetries

\* Variant: a fixed delay.
Backoff_Constant(a) == RetryDelay

\* RetryDelay * time.Duration(attempt) (lines 452, 476)
Backoff(a) == RetryDelay * a

(***************************************************************************)
(* Observations on effects, used by the properties.                        *)
(***************************************************************************)
OfType(r, t) == SelectSeq(effects[r], LAMBDA e : e.Type = t)

Attempts(r) == Len(OfType(r, "http_do"))

Sleeps(r) == [ i \in 1..Len(OfType(r, "sleep")) |-> OfType(r, "sleep")[i].Duration ]

\* What the attempts of r came back with, in order.
Results(r) == OfType(r, "http_return")

\* Read off an outcome without the code's own test.
Is2xx(o) == o.Err = "" /\ o.StatusCode \in 200..299

IsNon2xxResponse(o) == o.Err = "" /\ o.StatusCode \notin 200..299

Returned(r) == result[r].returned

ResponseEvents(r) == OfType(r, "soap_response")

(***************************************************************************)
(* Initial state: the process has started, no request has arrived.         *)
(***************************************************************************)
NoRequests ==
    /\ pc = [r \in Requests |-> "idle"]
    /\ request = [r \in Requests |-> NoRequest]
    /\ requestID = [r \in Requests |-> ""]
    /\ orderID = [r \in Requests |-> <<>>]
    /\ erpOrder = [r \in Requests |-> NoOrder]
    /\ soapXML = [r \in Requests |-> <<>>]
    /\ attempt = [r \in Requests |-> 0]
    /\ result = [r \in Requests |-> NoResult]
    /\ response = [r \in Requests |-> 0]
    /\ effects = [r \in Requests |-> <<>>]

Init ==
    /\ env \in EnvValues
    /\ NoRequests
    /\ upc = "off"
    /\ text = <<>>
    /\ escaped = <<>>
    /\ shopify = ZeroOrder
    /\ erp = NoOrder
    /\ xml = <<>>

(***************************************************************************)
(* handleWebhook, lines 484-522, and the entry of sendToERP, lines         *)
(* 414-430: up to the head of the retry loop.                              *)
(***************************************************************************)
\* http.Error(w, ..., status); return (lines 488-492, 495-500, 509-513)
Reject(r, status) ==
    /\ response' = [response EXCEPT ![r] = status]
    /\ pc' = [pc EXCEPT ![r] = "done"]
    /\ UNCHANGED <<orderID, erpOrder, soapXML, attempt, effects>>

\* Lines 515-524 and 414-430: the order id, the inbound-receipt entry, the
\* transformation, the envelope, and the loop variable set to 1.
Accept(r, req, id, now) ==
    LET oid   == FormatInt(req.body.order.ID)
        order == transformOrder(req.body.order, now)
    IN  /\ orderID' = [orderID EXCEPT ![r] = oid]
        /\ effects' = [effects EXCEPT ![r] =
              Append(@, LogIncomingWebhook(id, [Topic |-> req.topic],
                                           req.body.order, oid))]
        /\ erpOrder' = [erpOrder EXCEPT ![r] = order]
        /\ soapXML' = [soapXML EXCEPT ![r] = createSOAPEnvelope(order)]
        /\ attempt' = [attempt EXCEPT ![r] = 1]
        /\ pc' = [pc EXCEPT ![r] = "loop"]
        /\ UNCHANGED response

\* Variant: the error of json.Unmarshal is not looked at.
HandleWebhook_ParseErrorIgnored(r) ==
    /\ pc[r] = "idle"
    /\ \E req \in InboundRequests, id \in RequestIDs, now \in Clock :
        /\ request' = [request EXCEPT ![r] = req]
        /\ requestID' = [requestID EXCEPT ![r] = id]
        /\ IF req.method # "POST" THEN Reject(r, 405)
           ELSE IF req.body.readErr THEN Reject(r, 400)
           ELSE Accept(r, req, id, now)
    /\ UNCHANGED <<env, result, unitVars>>

\* Variant: the inbound-receipt entry is written before the body is parsed.
HandleWebhook_LoggedOnArrival(r) ==
    /\ pc[r] = "idle"
    /\ \E req \in InboundRequests, id \in RequestIDs, now \in Clock :
        /\ request' = [request EXCEPT ![r] = req]
        /\ requestID' = [requestID EXCEPT ![r] = id]
        /\ IF req.method # "POST" THEN Reject(r, 405)
           ELSE IF req.body.readErr THEN Reject(r, 400)
           ELSE IF req.body.parseErr
           THEN /\ response' = [response EXCEPT ![r] = 400]
                /\ pc' = [pc EXCEPT ![r] = "done"]
                /\ effects' = [effects EXCEPT ![r] =
                      Append(@, LogIncomingWebhook(id, [Topic |-> req.topic],
                                                   req.body.order, <<>>))]
                /\ UNCHANGED <<orderID, erpOrder, soapXML, attempt>>
           ELSE Accept(r, req, id, now)
    /\ UNCHANGED <<env, result, unitVars>>

HandleWebhook(r) ==
    /\ pc[r] = "idle"
    /\ \E req \in InboundRequests, id \in RequestIDs, now \in Clock :
        /\ request' = [request EXCEPT ![r] = req]
        /\ requestID' = [requestID EXCEPT ![r] = id]
        /\ IF req.method # "POST" THEN Reject(r, 405)
           ELSE IF req.body.readErr \/ req.body.parseErr THEN Reject(r, 400)
           ELSE Accept(r, req, id, now)
    /\ UNCHANGED <<env, result, unitVars>>

(***************************************************************************)
(* sendToERP returns e; handleWebhook writes its response, lines 525-543.  *)
(***************************************************************************)
\* Variant: the handler answers 200 whatever sendToERP returned.
Return_AlwaysOK(r, e) ==
    /\ result' = [result EXCEPT ![r] = e]
    /\ response' = [response EXCEPT ![r] = 200]
    /\ pc' = [pc EXCEPT ![r] = "done"]

Return(r, e) ==
    /\ result' = [result EXCEPT ![r] = e]
    /\ response' = [response EXCEPT ![r] = IF IsFailure(e) THEN 500 ELSE 200]
    /\ pc' = [pc EXCEPT ![r] = "done"]

\* Variant: one body reader made before the loop, empty after the first send.
BeginAttempt_DrainedBody(r) ==
    /\ pc[r] = "loop"
    /\ attempt[r] <= MaxRetries
    /\ IF ~NewRequestOK(ErpEndpoint)
       THEN /\ Return(r, ErrCreateRequest)
            /\ UNCHANGED effects
       ELSE LET headers == RequestHeaders(SoapActionUsed)
                body    == IF attempt[r] = 1 THEN soapXML[r] ELSE <<>>
            IN  /\ effects' = [effects EXCEPT ![r] =
                      @ \o << LogOutgoingSOAP(requestID[r], ErpEndpoint, headers,
                                              soapXML[r], erpOrder[r].OrderID),
                              HttpDo(ErpEndpoint, headers, body) >>]
                /\ pc' = [pc EXCEPT ![r] = "inflight"]
                /\ UNCHANGED <<result, response>>
    /\ UNCHANGED <<env, request, requestID, orderID, erpOrder, soapXML, attempt>>
    /\ UNCHANGED unitVars

\* Variant: the next attempt does not wait for the sleep to end.
BeginAttempt_NoWait(r) ==
    /\ pc[r] \in {"loop", "sleeping"}
    /\ attempt[r] <= MaxRetries
    /\ IF ~NewRequestOK(ErpEndpoint)
       THEN /\ Return(r, ErrCreateRequest)
            /\ UNCHANGED effects
       ELSE LET headers == RequestHeaders(SoapActionUsed)
            IN  /\ effects' = [effects EXCEPT ![r] =
                      @ \o << LogOutgoingSOAP(requestID[r], ErpEndpoint, headers,
                                              soapXML[r], erpOrder[r].OrderID),
                              HttpDo(ErpEndpoint, headers, soapXML[r]) >>]
                /\ pc' = [pc EXCEPT ![r] = "inflight"]
                /\ UNCHANGED <<result, response>>
    /\ UNCHANGED <<env, request, requestID, orderID, erpOrder, soapXML, attempt>>
    /\ UNCHANGED unitVars

(***************************************************************************)
(* Loop body up to the network call, lines 430-446.                        *)
(***************************************************************************)
BeginAttempt(r) ==
    /\ pc[r] = "loop"
    /\ attempt[r] <= MaxRetries
    /\ IF ~NewRequestOK(ErpEndpoint)
       THEN /\ Return(r, ErrCreateRequest)
            /\ UNCHANGED effects
       ELSE LET headers == RequestHeaders(SoapActionUsed)
            IN  /\ effects' = [effects EXCEPT ![r] =
                      @ \o << LogOutgoingSOAP(requestID[r], ErpEndpoint, headers,
                                              soapXML[r], erpOrder[r].OrderID),
                              HttpDo(ErpEndpoint, headers, soapXML[r]) >>]
                /\ pc' = [pc EXCEPT ![r] = "inflight"]
                /\ UNCHANGED <<result, response>>
    /\ UNCHANGED <<env, request, requestID, orderID, erpOrder, soapXML, attempt>>
    /\ UNCHANGED unitVars

\* Variant: a transport error leaves no response entry.
OnTransportError_Silent(r, out) ==
    LET logged == Append(effects[r], HttpReturn(out))
    IN  IF HasRetry(attempt[r])
        THEN /\ effects' = [effects EXCEPT ![r] =
                    Append(logged, Sleep(Backoff(attempt[r])))]
             /\ pc' = [pc EXCEPT ![r] = "sleeping"]
             /\ UNCHANGED <<result, response, attempt>>
        ELSE /\ effects' = [effects EXCEPT ![r] = logged]
             /\ Return(r, ErrSendRequest(out.err))
             /\ UNCHANGED attempt

\* Variant: a transport error is fatal, no retry.
OnTransportError_NoRetry(r, out) ==
    /\ effects' = [effects EXCEPT ![r] = @ \o
            << HttpReturn(out),
               LogSOAPResponse(requestID[r], 0, "", "", erpOrder[r].OrderID, out.err) >>]
    /\ Return(r, ErrSendRequest(out.err))
    /\ UNCHANGED attempt

(***************************************************************************)
(* httpClient.Do returned an error, lines 447-456.                         *)
(***************************************************************************)
OnTransportError(r, out) ==
    LET logged == effects[r] \o
                    << HttpReturn(out),
                       LogSOAPResponse(requestID[r], 0, "", "", erpOrder[r].OrderID,
                                       out.err) >>
    IN  IF HasRetry(attempt[r])
        THEN /\ effects' = [effects EXCEPT ![r] =
                    Append(logged, Sleep(Backoff(attempt[r])))]
             /\ pc' = [pc EXCEPT ![r] = "sleeping"]
             /\ UNCHANGED <<result, response, attempt>>
        ELSE /\ effects' = [effects EXCEPT ![r] = logged]
             /\ Return(r, ErrSendRequest(out.err))
             /\ UNCHANGED attempt

(***************************************************************************)
(* httpClient.Do returned a response, lines 458-480.                       *)
(***************************************************************************)
OnResponse(r, out) ==
    LET logged == effects[r] \o
                    << HttpReturn(out),
                       LogSOAPResponse(requestID[r], out.status, out.header, out.body,
                                       erpOrder[r].OrderID, "") >>
    IN  IF IsSuccess(out.status)
        THEN /\ effects' = [effects EXCEPT ![r] = logged]
             /\ Return(r, Nil)
             /\ UNCHANGED attempt
        ELSE IF HasRetry(attempt[r])
        THEN /\ effects' = [effects EXCEPT ![r] =
                    Append(logged, Sleep(Backoff(attempt[r])))]
             /\ pc' = [pc EXCEPT ![r] = "sleeping"]
             /\ UNCHANGED <<result, response, attempt>>
        ELSE \* attempt++ ends the loop; the return of line 480
             /\ effects' = [effects EXCEPT ![r] = logged]
             /\ attempt' = [attempt EXCEPT ![r] = @ + 1]
             /\ Return(r, ErrExhausted)

(***************************************************************************)
(* The round trip of line 446 ends with one of the outcomes.               *)
(***************************************************************************)
DoReturns(r) ==
    /\ pc[r] = "inflight"
    /\ \E out \in Outcomes :
        IF out.err # "" THEN OnTransportError(r, out) ELSE OnResponse(r, out)
    /\ UNCHANGED <<env, request, requestID, orderID, erpOrder, soapXML, unitVars>>

(***************************************************************************)
(* time.Sleep returns; continue / end of the loop body: attempt++.         *)
(***************************************************************************)
\* Variant: one attempt counter shared by the invocations.
WakeUp_SharedCounter(r) ==
    /\ pc[r] = "sleeping"
    /\ attempt' = [q \in Requests |-> IF pc[q] = "idle" THEN attempt[q]
                                      ELSE attempt[q] + 1]
    /\ pc' = [pc EXCEPT ![r] = "loop"]
    /\ UNCHANGED <<env, request, requestID, orderID, erpOrder, soapXML,
                   result, response, effects, unitVars>>

WakeUp(r) ==
    /\ pc[r] = "sleeping"
    /\ attempt' = [attempt EXCEPT ![r] = @ + 1]
    /\ pc' = [pc EXCEPT ![r] = "loop"]
    /\ UNCHANGED <<env, request, requestID, orderID, erpOrder, soapXML,
                   result, response, effects, unitVars>>

Next ==
    \E r \in Requests :
        \/ HandleWebhook(r)
        \/ BeginAttempt(r)
        \/ DoReturns(r)
        \/ WakeUp(r)

Spec == Init /\ [][Next]_vars

\* The same under the scheduling the handlers run with: a goroutine that
\* can run does run, httpClient.Do returns (the client's Timeout of 30 s,
\* line 272, ends a round trip that would not), and time.Sleep returns.
\* Nothing makes a request arrive.  The endpoint is one that parses (the
\* default) or one that does not; which URL it is that parses changes no
\* step of the loop.
FairInit == Init /\ env.SOAP_ACTION = ""

FairSpec ==
    /\ FairInit
    /\ [][Next]_vars
    /\ \A r \in Requests : WF_vars(BeginAttempt(r) \/ DoReturns(r) \/ WakeUp(r))

(***************************************************************************)
(* The pure functions on their own.  One behaviour takes one input, a text *)
(* or an inbound order, through the functions the delivery path applies    *)
(* to it: xmlEscape to a text, transformOrder and then createSOAPEnvelope  *)
(* to an order.  No request is served meanwhile.                           *)
(***************************************************************************)
MaxTextLen == 5

MaxItems == 3

\* The characters html.EscapeString rewrites, and those of an escape
\* sequence already present in a value ("&amp;").
Alphabet == {"&", "<", ">", "\"", "'", "a", "m", "p", ";"}

Texts == UNION { [1..n -> Alphabet] : n \in 0..MaxTextLen }

ItemLists == UNION { [1..n -> {ItemA, ItemB}] : n \in 0..MaxItems }

TopFields ==
    {"Email", "CreatedAt", "TotalPrice", "SubtotalPrice", "TotalTax", "Currency",
     "FinancialStatus", "FulfillmentStatus"}

CustomerFields == {"FirstName", "LastName", "Phone"}

AddressFields == DOMAIN ZeroAddress

\* The orders that differ from o in one field, which they take from z.
OneFieldFrom(o, z) ==
    { [o EXCEPT ![f] = z[f]] : f \in TopFields \cup {"ID", "OrderNumber", "LineItems"} }
      \cup { [o EXCEPT !.Customer[f] = z.Customer[f]] : f \in CustomerFields }
      \cup { [o EXCEPT !.ShippingAddress[f] = z.ShippingAddress[f]] : f \in AddressFields }
      \cup { [o EXCEPT !.BillingAddress[f] = z.BillingAddress[f]] : f \in AddressFields }

\* The orders that differ from o in one of its objects, taken from z.
OneObjectFrom(o, z) ==
    { [o EXCEPT !.Customer = z.Customer],
      [o EXCEPT !.ShippingAddress = z.ShippingAddress],
      [o EXCEPT !.BillingAddress = z.BillingAddress] }

\* Inbound orders: every list of up to MaxItems line items, repeated items
\* included, and orders with one field or object absent, or only one present.
OrderInputs ==
    { [FullOrder EXCEPT !.LineItems = l] : l \in ItemLists }
      \cup { ZeroOrder }
      \cup OneFieldFrom(FullOrder, ZeroOrder) \cup OneObjectFrom(FullOrder, ZeroOrder)
      \cup OneFieldFrom(ZeroOrder, FullOrder) \cup OneObjectFrom(ZeroOrder, FullOrder)

UnitInit ==
    /\ env = NothingSet
    /\ NoRequests
    /\ upc \in {"text", "order"}
    /\ text \in IF upc = "text" THEN Texts ELSE {<<>>}
    /\ shopify \in IF upc = "order" THEN OrderInputs ELSE {ZeroOrder}
    /\ escaped = <<>>
    /\ erp = NoOrder
    /\ xml = <<>>

\* escaped := xmlEscape(text)
Escape ==
    /\ upc = "text"
    /\ escaped' = xmlEscape(text)
    /\ upc' = "escaped"
    /\ UNCHANGED <<text, shopify, erp, xml, serverVars>>

\* erp := s.transformOrder(&shopify)
Transform ==
    /\ upc = "order"
    /\ \E now \in Clock : erp' = transformOrder(shopify, now)
    /\ upc' = "transformed"
    /\ UNCHANGED <<text, escaped, shopify, xml, serverVars>>

\* xml := s.createSOAPEnvelope(erp)
Encode ==
    /\ upc = "transformed"
    /\ xml' = createSOAPEnvelope(erp)
    /\ upc' = "encoded"
    /\ UNCHANGED <<text, escaped, shopify, erp, serverVars>>

UnitNext == Escape \/ Transform \/ Encode

UnitSpec == UnitInit /\ [][UnitNext]_vars

TypeOK ==
    /\ pc \in [Requests -> {"idle", "loop", "inflight", "sleeping", "done"}]
    /\ attempt \in [Requests -> 0..(MaxRetries + 1)]
    /\ response \in [Requests -> {0, 200, 400, 405, 500}]
(***************************************************************************)
(* Properties.                                                             *)
(***************************************************************************)
\* What sendToERP did for r: effects[r] without the inbound-receipt entry.
Delivery(r) == SelectSeq(effects[r], LAMBDA e : e.Type # "incoming_webhook")

\* The number of entries of type t among the first j entries of E.
CountTo(E, j, t) == Cardinality({ i \in 1..j : E[i].Type = t })

NoneIs2xx(r) == \A i \in DOMAIN Results(r) : ~Is2xx(Results(r)[i])

\* C1. Retry exhaustion: an invocation whose attempts all end in a non-2xx
\* response has, when it returns, made exactly MaxRetries attempts and
\* returns the failure of exhaustion.
C1_RetryExhaustion ==
    \A r \in Requests :
        ( /\ Returned(r)
          /\ Attempts(r) >= 1
          /\ \A i \in DOMAIN Results(r) : IsNon2xxResponse(Results(r)[i]) )
        => /\ Attempts(r) = MaxRetries
           /\ Len(Results(r)) = MaxRetries
           /\ IsFailure(result[r])
           /\ result[r] = ErrExhausted

C1_Witness ==
    \E r \in Requests :
        /\ Returned(r)
        /\ Len(Results(r)) = MaxRetries
        /\ \A i \in DOMAIN Results(r) : IsNon2xxResponse(Results(r)[i])
        /\ result[r] = ErrExhausted

\* C2. Early success: a 2xx outcome is always the last outcome of its
\* invocation: attempt k got it, exactly k attempts were made, k-1 sleeps
\* were slept (none after the 2xx), nothing follows its response entry, and
\* sendToERP has returned nil.
C2_EarlySuccess ==
    \A r \in Requests :
        \A k \in DOMAIN Results(r) :
            Is2xx(Results(r)[k])
            => /\ k = Len(Results(r))
               /\ Attempts(r) = k
               /\ Len(Sleeps(r)) = k - 1
               /\ effects[r][Len(effects[r])].Type = "soap_response"
               /\ Returned(r)
               /\ result[r] = Nil

C2_Witness ==
    \E r1, r2 \in Requests :
        /\ result[r1] = Nil /\ Returned(r1)
        /\ Attempts(r1) = 2 /\ Results(r1)[1].Err # "" /\ Is2xx(Results(r1)[2])
        /\ result[r2] = Nil /\ Returned(r2)
        /\ Attempts(r2) = MaxRetries /\ IsNon2xxResponse(Results(r2)[1])
        /\ Is2xx(Results(r2)[MaxRetries])

\* C3. Linear backoff: every sleep directly follows the response entry of a
\* failed attempt k < MaxRetries and lasts k * RetryDelay, whichever way the
\* attempt failed; a failed attempt k < MaxRetries is always followed by
\* that sleep, the failed attempt MaxRetries by nothing at all; and every
\* attempt but the first starts right after a sleep.
C3_LinearBackoff ==
    \A r \in Requests :
        LET E == Delivery(r) IN
        \A j \in DOMAIN E :
            /\ E[j].Type = "sleep"
               => LET k == CountTo(E, j, "http_return") IN
                  /\ j > 2
                  /\ E[j - 1].Type = "soap_response"
                  /\ E[j - 2].Type = "http_return" /\ ~Is2xx(E[j - 2])
                  /\ k < MaxRetries
                  /\ E[j].Duration = k * RetryDelay
            /\ (E[j].Type = "http_return" /\ ~Is2xx(E[j]))
               => LET k == CountTo(E, j, "http_return") IN
                  IF k < MaxRetries
                  THEN Len(E) >= j + 2 /\ E[j + 2].Type = "sleep"
                  ELSE Len(E) = j + 1 /\ Returned(r)
            /\ (E[j].Type = "outgoing_soap" /\ j > 1)
               => E[j - 1].Type = "sleep"

C3_Witness ==
    \E r \in Requests :
        /\ Returned(r) /\ IsFailure(result[r])
        /\ Len(Results(r)) = MaxRetries
        /\ Results(r)[1].Err # ""
        /\ IsNon2xxResponse(Results(r)[2])
        /\ Sleeps(r) = <<RetryDelay, 2 * RetryDelay>>
        /\ Delivery(r)[Len(Delivery(r))].Type = "soap_response"

\* C4. Status-blind retry: two invocations that have seen the same number
\* of outcomes, none of them 2xx, have slept the same delays and, at the
\* same point of the code, made the same number of attempts, whatever the
\* outcomes were; and an invocation that returns without a 2xx after at
\* least one attempt has used the whole budget.
C4_StatusBlind ==
    /\ \A r1, r2 \in Requests :
          ( /\ Len(Results(r1)) = Len(Results(r2))
            /\ NoneIs2xx(r1) /\ NoneIs2xx(r2) )
          => /\ Sleeps(r1) = Sleeps(r2)
             /\ pc[r1] = pc[r2] => Attempts(r1) = Attempts(r2)
    /\ \A r \in Requests :
          (Returned(r) /\ NoneIs2xx(r) /\ Len(Results(r)) >= 1)
          => Len(Results(r)) = MaxRetries

C4_Witness ==
    \E r1, r2 \in Requests :
        /\ Returned(r1) /\ Returned(r2)
        /\ Len(Results(r1)) = MaxRetries /\ Len(Results(r2)) = MaxRetries
        /\ NoneIs2xx(r1) /\ NoneIs2xx(r2)
        /\ \E i \in DOMAIN Results(r1) : Results(r1)[i].Err # ""
        /\ \A i \in DOMAIN Results(r2) : Results(r2)[i].Err = ""
        /\ \A i \in 1..MaxRetries : Results(r1)[i] # Results(r2)[i]
        /\ Sleeps(r1) = Sleeps(r2) /\ Len(Sleeps(r1)) = MaxRetries - 1

\* C5 as stated: every return of sendToERP is a success right after a 2xx
\* or a failure after exactly MaxRetries attempts.
C5_Original ==
    \A r \in Requests :
        Returned(r)
        => \/ /\ result[r] = Nil
              /\ Attempts(r) >= 1
              /\ Is2xx(Results(r)[Len(Results(r))])
           \/ /\ IsFailure(result[r])
              /\ Attempts(r) = MaxRetries

\* C5, amended: every return of sendToERP is a success right after a 2xx,
\* a failure after exactly MaxRetries attempts none of which saw a 2xx, or
\* the failure to build the request for an endpoint that does not parse,
\* returned before any attempt and any outbound entry.
C5_NoPartialSuccess ==
    \A r \in Requests :
        Returned(r)
        => \/ /\ result[r] = Nil
              /\ Attempts(r) >= 1
              /\ Len(Results(r)) = Attempts(r)
              /\ Is2xx(Results(r)[Len(Results(r))])
           \/ /\ IsFailure(result[r])
              /\ Attempts(r) = MaxRetries
              /\ Len(Results(r)) = MaxRetries
              /\ NoneIs2xx(r)
           \/ /\ result[r] = ErrCreateRequest
              /\ ErpEndpoint \in UnparseableURLs
              /\ Attempts(r) = 0
              /\ Delivery(r) = <<>>

C5_Witness ==
    \E r \in Requests :
        /\ Returned(r)
        /\ result[r] = ErrCreateRequest
        /\ Attempts(r) = 0
        /\ response[r] = 500
\* C6 as stated: a failure returned after the last attempt carries the
\* number of attempts made and the result of the last attempt: the transport
\* error when there was no response, the status code when the response was
\* not 2xx.
C6_Original ==
    \A r \in Requests :
        (Returned(r) /\ IsFailure(result[r]) /\ Attempts(r) = MaxRetries)
        => LET last == Results(r)[Len(Results(r))] IN
           /\ Attempts(r) \in Range(result[r].ints)
           /\ last.Err # "" => result[r].wrapped = last.Err
           /\ last.Err = "" => last.StatusCode \in Range(result[r].ints)

\* C7. One outbound-attempt entry right before every network call and one
\* outbound-response entry right after every outcome, whatever the outcome;
\* so when sendToERP has returned, the attempts, the outbound-attempt
\* entries and the outbound-response entries are equally many.
C7_OneEventPairPerAttempt ==
    \A r \in Requests :
        LET E == Delivery(r) IN
        /\ \A j \in DOMAIN E :
            /\ E[j].Type = "http_do"
               => j > 1 /\ E[j - 1].Type = "outgoing_soap"
            /\ E[j].Type = "outgoing_soap"
               => Len(E) > j /\ E[j + 1].Type = "http_do"
            /\ E[j].Type = "http_return"
               => Len(E) > j /\ E[j + 1].Type = "soap_response"
            /\ E[j].Type = "soap_response"
               => j > 1 /\ E[j - 1].Type = "http_return"
        /\ Returned(r)
           => /\ Len(OfType(r, "outgoing_soap")) = Attempts(r)
              /\ Len(OfType(r, "soap_response")) = Attempts(r)
              /\ Len(Results(r)) = Attempts(r)

C7_Witness ==
    \E r \in Requests :
        /\ Returned(r)
        /\ Attempts(r) = MaxRetries
        /\ Results(r)[1].Err # ""
        /\ IsNon2xxResponse(Results(r)[2])
        /\ Is2xx(Results(r)[3])
        /\ Len(OfType(r, "outgoing_soap")) = MaxRetries
        /\ Len(OfType(r, "soap_response")) = MaxRetries

\* The order of one attempt's effects, the sleep last.
AttemptPattern ==
    <<"outgoing_soap", "http_do", "http_return", "soap_response", "sleep">>

\* C8. Attempts of one invocation are strictly sequential: its effects
\* repeat attempt entry, call, outcome, response entry, sleep, in that order;
\* at most one call is without its outcome, and exactly while the handler
\* waits for it; and a new call is only ever made from the head of the
\* loop, with every earlier call answered and the sleep over.
C8_Sequential ==
    /\ [](\A r \in Requests :
            LET E == Delivery(r) IN
            /\ \A j \in DOMAIN E : E[j].Type = AttemptPattern[((j - 1) % 5) + 1]
            /\ Attempts(r) - Len(Results(r)) \in {0, 1}
            /\ Attempts(r) - Len(Results(r)) = 1 <=> pc[r] = "inflight"
            /\ pc[r] = "sleeping" => (E # <<>> /\ E[Len(E)].Type = "sleep"))
    /\ [][\A r \in Requests :
            Attempts(r)' # Attempts(r)
            => /\ Attempts(r)' = Attempts(r) + 1
               /\ pc[r] = "loop"
               /\ Len(Results(r)) = Attempts(r)]_vars

C8_Witness ==
    \E r1, r2 \in Requests :
        /\ pc[r1] = "inflight" /\ Attempts(r1) = MaxRetries
        /\ Len(Results(r1)) = MaxRetries - 1
        /\ pc[r2] = "sleeping" /\ Attempts(r2) = 2

AuditTypes == {"incoming_webhook", "outgoing_soap", "soap_response"}

\* The audit entries of r, in the order they were handed to the Logger.
Audit(r) == SelectSeq(effects[r], LAMBDA e : e.Type \in AuditTypes)

\* C9. Every audit entry of one request carries the request id and the order
\* id of its inbound-receipt entry, the first one, which are the ones
\* handleWebhook fixed when it started on the request.
C9_SameCorrelation ==
    \A r \in Requests :
        \A i \in DOMAIN Audit(r) :
            /\ Audit(r)[1].Type = "incoming_webhook"
            /\ Audit(r)[1].RequestID = requestID[r]
            /\ Audit(r)[1].OrderID = orderID[r]
            /\ Audit(r)[i].RequestID = Audit(r)[1].RequestID
            /\ Audit(r)[i].OrderID = Audit(r)[1].OrderID

C9_Witness ==
    \E r1, r2 \in Requests :
        /\ Returned(r1) /\ Attempts(r1) = MaxRetries
        /\ Len(Audit(r1)) = 1 + 2 * MaxRetries
        /\ orderID[r1] = <<"1", "2", "3", "4", "5">>
        /\ requestID[r2] # requestID[r1]
        /\ orderID[r2] # orderID[r1]
        /\ Len(Audit(r2)) >= 3

\* C10. Failure classification: the response entry of an attempt that
\* ended in a transport error has status code 0, the error as its non-empty
\* marker and an empty body; the response entry of an attempt that got a
\* non-2xx response has that response's status code and body and no marker.
C10_FailureClassification ==
    \A r \in Requests :
        LET E == Delivery(r) IN
        \A j \in DOMAIN E :
            E[j].Type = "http_return"
            => /\ Len(E) > j
               /\ E[j + 1].Type = "soap_response"
               /\ E[j].Err # ""
                  => /\ E[j + 1].StatusCode = 0
                     /\ E[j + 1].Error # ""
                     /\ E[j + 1].Error = E[j].Err
                     /\ E[j + 1].Body = ""
               /\ IsNon2xxResponse(E[j])
                  => /\ E[j + 1].StatusCode = E[j].StatusCode
                     /\ E[j + 1].Body = E[j].Body
                     /\ E[j + 1].Error = ""

C10_Witness ==
    \E r \in Requests :
        LET R == ResponseEvents(r) IN
        /\ Len(R) = MaxRetries
        /\ R[1].StatusCode = 0 /\ R[1].Error # "" /\ R[1].Body = ""
        /\ R[2].StatusCode = 500 /\ R[2].Error = "" /\ R[2].Body # ""
        /\ R[3].StatusCode = 300 /\ R[3].Error = "" /\ R[3].Body = ""

\* A POST whose body was read and parsed: the requests sendToERP is called for.
Parseable(r) ==
    /\ pc[r] # "idle"
    /\ request[r].method = "POST"
    /\ ~request[r].body.readErr
    /\ ~request[r].body.parseErr

\* C11. Malformed input: a POST whose body json.Unmarshal cannot parse is
\* answered with 400 and nothing else is done for it: no outbound order, no
\* envelope, no call of sendToERP, no network attempt, no sleep, no entry.
C11_MalformedInput ==
    \A r \in Requests :
        ( /\ pc[r] # "idle"
          /\ request[r].method = "POST"
          /\ ~request[r].body.readErr
          /\ request[r].body.parseErr )
        => /\ response[r] = 400
           /\ pc[r] = "done"
           /\ erpOrder[r] = NoOrder
           /\ soapXML[r] = <<>>
           /\ attempt[r] = 0
           /\ ~Returned(r)
           /\ effects[r] = <<>>

C11_Witness ==
    \E r \in Requests :
        /\ pc[r] = "done"
        /\ request[r].method = "POST"
        /\ request[r].body.parseErr
        /\ response[r] = 400

\* C12. For a parseable POST the handler answers 200 exactly when sendToERP
\* returned success, which it does only right after a 2xx outcome, and 500
\* exactly when it returned a failure; it answers once, when sendToERP has
\* returned, and does nothing for the request afterwards.
C12_ResponseMapping ==
    /\ [](\A r \in Requests :
            Parseable(r) =>
                /\ response[r] \in {0, 200, 500}
                /\ (response[r] # 0) <=> Returned(r)
                /\ (response[r] # 0) => pc[r] = "done"
                /\ (response[r] = 200) <=> (Returned(r) /\ result[r] = Nil)
                /\ (response[r] = 500) <=> (Returned(r) /\ result[r] # Nil)
                /\ (response[r] = 200) =>
                        /\ Results(r) # <<>>
                        /\ Is2xx(Results(r)[Len(Results(r))])
                /\ (response[r] = 500) => NoneIs2xx(r))
    /\ [][\A r \in Requests :
            response[r] # 0 =>
                /\ response'[r] = response[r]
                /\ effects'[r] = effects[r]]_vars

C12_Witness ==
    \E r1, r2 \in Requests :
        /\ Parseable(r1) /\ response[r1] = 200 /\ Attempts(r1) = 2
        /\ Parseable(r2) /\ response[r2] = 500 /\ Attempts(r2) = MaxRetries

\* The state of one request's handler.
Handler(r) ==
    <<pc[r], request[r], requestID[r], orderID[r], erpOrder[r], soapXML[r],
      attempt[r], result[r], response[r], effects[r]>>

Calls(r) == OfType(r, "http_do")

\* C14 as stated: every invocation of sendToERP eventually ends Succeeded
\* (a success right after a 2xx) or Exhausted (a failure after MaxRetries
\* attempts), and never has more than MaxRetries attempts started.
C14_Original ==
    /\ \A r \in Requests :
        (pc[r] = "loop") ~>
            ( /\ Returned(r)
              /\ \/ result[r] = Nil
                 \/ result[r] # Nil /\ Attempts(r) = MaxRetries )
    /\ [](\A r \in Requests : Attempts(r) \in 0..MaxRetries)

\* C14, amended: every invocation of sendToERP eventually returns, as
\* Succeeded, as Exhausted, or with the failure to build the request before
\* any attempt; never more than MaxRetries attempts are started, and the
\* attempt counter stays within 1..MaxRetries + 1.
C14_Termination ==
    /\ \A r \in Requests : (pc[r] = "loop") ~> Returned(r)
    /\ [](\A r \in Requests :
            /\ Attempts(r) \in 0..MaxRetries
            /\ (pc[r] \in {"loop", "inflight", "sleeping"}) =>
                    (attempt[r] \in 1..MaxRetries /\ ~Returned(r))
            /\ Returned(r) =>
                    ( \/ result[r] = Nil /\ Is2xx(Results(r)[Len(Results(r))])
                      \/ result[r] # Nil /\ Attempts(r) = MaxRetries /\ NoneIs2xx(r)
                      \/ result[r] = ErrCreateRequest /\ Attempts(r) = 0 ))

C14_Witness ==
    \E r1, r2 \in Requests :
        /\ Returned(r1) /\ result[r1] # Nil /\ Attempts(r1) = MaxRetries
        /\ Returned(r2) /\ result[r2] = Nil /\ Attempts(r2) = 1

\* C18 as stated: the endpoint, the action name, the retry count and the
\* backoff base are each the value handed to the process when there is one
\* and the default when there is none.
C18_Original ==
    \A r \in Requests :
        /\ \A i \in DOMAIN Calls(r) :
            /\ Calls(r)[i].URL = (IF env.ERP_ENDPOINT # "" THEN env.ERP_ENDPOINT
                     ELSE DefaultERPEndpoint)
            /\ Calls(r)[i].Headers.SOAPAction =
                    <<"\"", (IF env.SOAP_ACTION # "" THEN env.SOAP_ACTION
                             ELSE SOAPAction), "\"">>
        /\ (Returned(r) /\ Attempts(r) >= 1 /\ NoneIs2xx(r)) =>
                Attempts(r) = (IF env.MAX_RETRIES # 0 THEN env.MAX_RETRIES ELSE MaxRetries)
        /\ \A i \in DOMAIN Sleeps(r) :
                Sleeps(r)[i] =
                    i * (IF env.RETRY_DELAY # 0 THEN env.RETRY_DELAY ELSE RetryDelay)

\* C18, amended: the endpoint and the action name are each the value handed
\* to the process when there is one and the default when there is none; the
\* retry count and the backoff base are the constants MaxRetries and
\* RetryDelay whatever the process was handed.
C18_Configuration ==
    \A r \in Requests :
        /\ \A i \in DOMAIN Calls(r) :
            /\ Calls(r)[i].URL =
                    (IF env.ERP_ENDPOINT = "" THEN DefaultERPEndpoint
                     ELSE env.ERP_ENDPOINT)
            /\ Calls(r)[i].Headers.SOAPAction =
                    <<"\"", (IF env.SOAP_ACTION = "" THEN SOAPAction
                             ELSE env.SOAP_ACTION), "\"">>
        /\ (Returned(r) /\ Attempts(r) >= 1 /\ NoneIs2xx(r)) => Attempts(r) = MaxRetries
        /\ \A i \in DOMAIN Sleeps(r) : Sleeps(r)[i] = i * RetryDelay

C18_Witness ==
    \E r \in Requests :
        /\ env.ERP_ENDPOINT # "" /\ env.SOAP_ACTION # ""
        /\ env.MAX_RETRIES # 0 /\ env.RETRY_DELAY # 0
        /\ Returned(r) /\ NoneIs2xx(r)
        /\ Attempts(r) = MaxRetries
        /\ Len(Sleeps(r)) = MaxRetries - 1

\* C19. Retries are identical resends: every network call of one invocation
\* carries the same endpoint, the same three headers and the same body, the
\* envelope made once from the outbound order before the first attempt; and
\* once made, the envelope and the outbound order never change.
C19_IdenticalResends ==
    /\ [](\A r \in Requests : \A i \in DOMAIN Calls(r) :
            /\ Calls(r)[i].URL = Calls(r)[1].URL
            /\ Calls(r)[i].Headers = Calls(r)[1].Headers
            /\ DOMAIN Calls(r)[i].Headers = {"ContentType", "SOAPAction", "UserAgent"}
            /\ Calls(r)[i].Body = Calls(r)[1].Body
            /\ Calls(r)[i].Body = soapXML[r]
            /\ OfType(r, "outgoing_soap")[i].Body = soapXML[r]
            /\ soapXML[r] = createSOAPEnvelope(erpOrder[r]))
    /\ [][\A r \in Requests :
            pc[r] # "idle" =>
                /\ soapXML'[r] = soapXML[r]
                /\ erpOrder'[r] = erpOrder[r]]_vars

C19_Witness ==
    \E r \in Requests :
        /\ Attempts(r) = MaxRetries
        /\ request[r].body.order = FullOrder
        /\ Calls(r)[MaxRetries].Body = createSOAPEnvelope(erpOrder[r])
        /\ Calls(r)[MaxRetries].Body # <<>>

\* C20. A parseable POST leaves exactly one inbound-receipt entry, and it
\* comes before every outbound-attempt entry and every network call of the
\* request; a request rejected with 405 or 400 leaves no inbound-receipt,
\* outbound-attempt or outbound-response entry and makes no network call.
C20_InboundReceipt ==
    \A r \in Requests :
        /\ Parseable(r) =>
            /\ Len(OfType(r, "incoming_webhook")) = 1
            /\ \A i, j \in DOMAIN effects[r] :
                ( /\ effects[r][i].Type = "incoming_webhook"
                  /\ effects[r][j].Type \in {"outgoing_soap", "http_do", "soap_response"} )
                => i < j
        /\ (pc[r] # "idle" /\ ~Parseable(r)) =>
            /\ response[r] \in {400, 405}
            /\ \A i \in DOMAIN effects[r] :
                effects[r][i].Type \notin
                    {"incoming_webhook", "outgoing_soap", "soap_response", "http_do"}

C20_Witness ==
    \E r1, r2 \in Requests :
        /\ Parseable(r1) /\ Attempts(r1) = 2
        /\ effects[r1][1].Type = "incoming_webhook"
        /\ pc[r2] = "done" /\ response[r2] = 405 /\ effects[r2] = <<>>

(***************************************************************************)
(* Properties of the pure functions, read off as the receiver of the       *)
(* envelope reads it.                                                      *)
(***************************************************************************)
\* The references a conforming XML parser resolves in character data: the
\* predefined entities and the character references of the two quotes.
References ==
    { << <<"&", "a", "m", "p", ";">>, "&" >>,
      << <<"&", "l", "t", ";">>, "<" >>,
      << <<"&", "g", "t", ";">>, ">" >>,
      << <<"&", "q", "u", "o", "t", ";">>, "\"" >>,
      << <<"&", "a", "p", "o", "s", ";">>, "'" >>,
      << <<"&", "#", "3", "4", ";">>, "\"" >>,
      << <<"&", "#", "3", "9", ";">>, "'" >> }

StartsWith(s, p) == Len(s) >= Len(p) /\ SubSeq(s, 1, Len(p)) = p

RefAt(s) == { ref \in References : StartsWith(s, ref[1]) }

\* The text a parser hands out for the character data s.
RECURSIVE XmlUnescape(_)
XmlUnescape(s) ==
    IF s = <<>> THEN <<>>
    ELSE IF RefAt(s) # {}
    THEN LET ref == CHOOSE x \in RefAt(s) : TRUE
         IN  <<ref[2]>> \o XmlUnescape(SubSeq(s, Len(ref[1]) + 1, Len(s)))
    ELSE <<Head(s)>> \o XmlUnescape(Tail(s))

\* s holds no raw <, >, " or ', and every & in it begins a reference.
RECURSIVE WellFormed(_)
WellFormed(s) ==
    IF s = <<>> THEN TRUE
    ELSE IF Head(s) \in {"<", ">", "\"", "'"} THEN FALSE
    ELSE IF Head(s) = "&"
    THEN /\ RefAt(s) # {}
         /\ LET ref == CHOOSE x \in RefAt(s) : TRUE
            IN  WellFormed(SubSeq(s, Len(ref[1]) + 1, Len(s)))
    ELSE WellFormed(Tail(s))

\* The text of element tag at position k of envelope x, or a mark when
\* that element is not there.
Read(x, k, tag) ==
    IF k \in DOMAIN x /\ x[k][1] = "leaf" /\ x[k][2] = tag
    THEN XmlUnescape(x[k][3]) ELSE <<"(no such element)">>

\* The positions of element tag in x, of the given kind of entry.
Positions(x, kind, tag) == { k \in DOMAIN x : x[k][1] = kind /\ x[k][2] = tag }

\* The i-th smallest member of the set of numbers S.
Nth(S, i) == CHOOSE k \in S : Cardinality({ j \in S : j < k }) = i - 1

RECURSIVE ParseNat(_)
ParseNat(s) ==
    IF s = <<>> THEN 0
    ELSE 10 * ParseNat(SubSeq(s, 1, Len(s) - 1))
            + (CHOOSE d \in 0..9 : DigitChar(d) = s[Len(s)])

\* C15. Line items keep their number and order: N inbound line items give
\* N outbound items, the i-th made from the i-th, and N item elements in
\* the envelope, all inside tem:Items, the i-th carrying the i-th outbound
\* item; N = 0 and repeated identical items included.
C15_ItemOrder ==
    /\ upc \in {"transformed", "encoded"} =>
        /\ Len(erp.Items) = Len(shopify.LineItems)
        /\ \A i \in 1..Len(shopify.LineItems) :
            LET a == shopify.LineItems[i]
                b == erp.Items[i]
            IN  /\ b.SKU = a.SKU
                /\ b.ProductName = a.Title
                /\ b.Quantity = a.Quantity
                /\ b.UnitPrice = a.Price
                /\ b.VariantTitle = a.VariantTitle
    /\ upc = "encoded" =>
        LET S == Positions(xml, "open", "tem:Item")
            first == Nth(Positions(xml, "open", "tem:Items"), 1)
            last == Nth(Positions(xml, "close", "tem:Items"), 1)
        IN  /\ Cardinality(S) = Len(shopify.LineItems)
            /\ last - first - 1 = 7 * Len(shopify.LineItems)
            /\ \A i \in 1..Len(shopify.LineItems) :
                LET k == Nth(S, i)
                    a == shopify.LineItems[i]
                IN  /\ k = first + 1 + 7 * (i - 1)
                    /\ Read(xml, k + 1, "tem:SKU") = a.SKU
                    /\ Read(xml, k + 2, "tem:ProductName") = a.Title
                    /\ ParseNat(Read(xml, k + 3, "tem:Quantity")) = a.Quantity
                    /\ Read(xml, k + 4, "tem:UnitPrice") = a.Price
                    /\ Read(xml, k + 5, "tem:VariantTitle") = a.VariantTitle
                    /\ xml[k + 6] = <<"close", "tem:Item", <<>>>>

C15_Witness ==
    /\ upc = "encoded"
    /\ Len(shopify.LineItems) = 3
    /\ shopify.LineItems[1] = shopify.LineItems[2]
    /\ shopify.LineItems[2] # shopify.LineItems[3]
    /\ Cardinality(Positions(xml, "open", "tem:Item")) = 3

\* C16. Escaping round trip: for every text s over the characters <, >, &,
\* " and ' and the letters of "&amp;", what a parser reads back from
\* xmlEscape(s) is s, and xmlEscape(s) holds no raw <, >, " or ' and no &
\* that does not begin a reference; every text written into the envelope is
\* of that form.
C16_EscapeRoundTrip ==
    /\ upc = "escaped" =>
        /\ XmlUnescape(escaped) = text
        /\ WellFormed(escaped)
    /\ upc = "encoded" =>
        \A k \in DOMAIN xml : WellFormed(xml[k][3])

C16_Witness ==
    /\ upc = "escaped"
    /\ text = <<"&", "a", "m", "p", ";">>
    /\ escaped = <<"&", "a", "m", "p", ";", "a", "m", "p", ";">>

\* ERPOrder, ERPAddress and ERPItem: the names of their fields.
ERPOrderFields ==
    {"OrderID", "OrderNumber", "CustomerEmail", "CustomerName", "CustomerPhone",
     "OrderDate", "TotalAmount", "SubtotalAmount", "TaxAmount", "Currency",
     "PaymentStatus", "FulfillmentStatus", "Items", "ShippingAddress",
     "BillingAddress", "Timestamp"}

ERPAddressFields ==
    {"Name", "Company", "AddressLine1", "AddressLine2", "City", "State",
     "PostalCode", "Country", "Phone"}

ERPItemFields == {"SKU", "ProductName", "Quantity", "UnitPrice", "VariantTitle"}

\* Outbound field and the inbound field it is a copy of.
CopiedFields ==
    { <<"CustomerEmail", "Email">>, <<"OrderDate", "CreatedAt">>,
      <<"TotalAmount", "TotalPrice">>, <<"SubtotalAmount", "SubtotalPrice">>,
      <<"TaxAmount", "TotalTax">>, <<"Currency", "Currency">>,
      <<"PaymentStatus", "FinancialStatus">>,
      <<"FulfillmentStatus", "FulfillmentStatus">> }

CopiedAddressFields ==
    { <<"Company", "Company">>, <<"AddressLine1", "Address1">>,
      <<"AddressLine2", "Address2">>, <<"City", "City">>, <<"State", "Province">>,
      <<"PostalCode", "Zip">>, <<"Country", "Country">>, <<"Phone", "Phone">> }

AddressPairs == { <<"ShippingAddress", "tem:ShippingAddress">>,
                  <<"BillingAddress", "tem:BillingAddress">> }

\* Element of the envelope and the outbound field written into it.
OrderElements ==
    { <<"tem:OrderID", "OrderID">>, <<"tem:OrderNumber", "OrderNumber">>,
      <<"tem:CustomerEmail", "CustomerEmail">>, <<"tem:CustomerName", "CustomerName">>,
      <<"tem:CustomerPhone", "CustomerPhone">>, <<"tem:OrderDate", "OrderDate">>,
      <<"tem:TotalAmount", "TotalAmount">>, <<"tem:SubtotalAmount", "SubtotalAmount">>,
      <<"tem:TaxAmount", "TaxAmount">>, <<"tem:Currency", "Currency">>,
      <<"tem:PaymentStatus", "PaymentStatus">>,
      <<"tem:FulfillmentStatus", "FulfillmentStatus">>,
      <<"tem:Timestamp", "Timestamp">> }

AddressElements ==
    { <<"tem:Name", "Name">>, <<"tem:Company", "Company">>,
      <<"tem:AddressLine1", "AddressLine1">>, <<"tem:AddressLine2", "AddressLine2">>,
      <<"tem:City", "City">>, <<"tem:State", "State">>,
      <<"tem:PostalCode", "PostalCode">>, <<"tem:Country", "Country">>,
      <<"tem:Phone", "Phone">> }

\* The outbound order has the fields of ERPOrder, whatever the inbound order.
SameShape ==
    /\ DOMAIN erp = ERPOrderFields
    /\ DOMAIN erp.ShippingAddress = ERPAddressFields
    /\ DOMAIN erp.BillingAddress = ERPAddressFields
    /\ \A i \in DOMAIN erp.Items : DOMAIN erp.Items[i] = ERPItemFields

\* A copied field whose inbound field is absent is the empty string.
AbsentCopiesEmpty ==
    /\ \A c \in CopiedFields : shopify[c[2]] = <<>> => erp[c[1]] = <<>>
    /\ shopify.Customer.Phone = <<>> => erp.CustomerPhone = <<>>
    /\ \A a \in AddressPairs, c \in CopiedAddressFields :
            shopify[a[1]][c[2]] = <<>> => erp[a[1]][c[1]] = <<>>

\* The envelope holds every element of the order once, with the text of its
\* field, and every element of the two addresses once within its address.
EveryElementOnce ==
    /\ \A e \in OrderElements :
        /\ Cardinality(Positions(xml, "leaf", e[1])) = 1
        /\ Read(xml, Nth(Positions(xml, "leaf", e[1]), 1), e[1]) = erp[e[2]]
    /\ \A b \in {"tem:order", "tem:ShippingAddress", "tem:BillingAddress", "tem:Items"} :
        /\ Cardinality(Positions(xml, "open", b)) = 1
        /\ Cardinality(Positions(xml, "close", b)) = 1
    /\ \A a \in AddressPairs :
        LET from == Nth(Positions(xml, "open", a[2]), 1)
            to   == Nth(Positions(xml, "close", a[2]), 1)
        IN  /\ to - from = Cardinality(AddressElements) + 1
            /\ \A e \in AddressElements :
                LET at == { k \in Positions(xml, "leaf", e[1]) : from < k /\ k < to }
                IN  /\ Cardinality(at) = 1
                    /\ Read(xml, Nth(at, 1), e[1]) = erp[a[1]][e[2]]

\* C17 as stated: the outbound order always has the same fields, every
\* string field of it whose inbound source fields are absent is the empty
\* string, and the envelope holds every order, shipping-address and
\* billing-address element exactly once.
C17_Original ==
    /\ upc \in {"transformed", "encoded"} =>
        /\ SameShape
        /\ AbsentCopiesEmpty
        /\ shopify.ID = 0 => erp.OrderID = <<>>
        /\ shopify.OrderNumber = 0 => erp.OrderNumber = <<>>
        /\ (shopify.Customer.FirstName = <<>> /\ shopify.Customer.LastName = <<>>)
                => erp.CustomerName = <<>>
        /\ \A a \in AddressPairs :
            (shopify[a[1]].FirstName = <<>> /\ shopify[a[1]].LastName = <<>>)
                => erp[a[1]].Name = <<>>
    /\ upc = "encoded" => EveryElementOnce

\* C17, amended: the outbound order always has the same fields; every field
\* of it copied from an absent inbound field is the empty string, a name
\* whose two parts are absent is a single space, the order id and the order
\* number of an absent number are "0", and the timestamp is never empty; the
\* envelope holds every order, shipping-address and billing-address element
\* exactly once.
C17_FixedShape ==
    /\ upc \in {"transformed", "encoded"} =>
        /\ SameShape
        /\ AbsentCopiesEmpty
        /\ shopify.ID = 0 => erp.OrderID = <<"0">>
        /\ shopify.OrderNumber = 0 => erp.OrderNumber = <<"0">>
        /\ (shopify.Customer.FirstName = <<>> /\ shopify.Customer.LastName = <<>>)
                => erp.CustomerName = <<" ">>
        /\ \A a \in AddressPairs :
            (shopify[a[1]].FirstName = <<>> /\ shopify[a[1]].LastName = <<>>)
                => erp[a[1]].Name = <<" ">>
        /\ erp.Timestamp # <<>>
    /\ upc = "encoded" => EveryElementOnce

C17_Witness ==
    /\ upc = "encoded"
    /\ shopify = ZeroOrder
    /\ erp.ShippingAddress.Name = <<" ">>
    /\ Cardinality(Positions(xml, "leaf", "tem:Name")) = 2
====
